---- MODULE Spec2Model ----
(***************************************************************************)
(* The bootstrapped information-extraction pipeline of iepy/core.py, with  *)
(* the store queries of iepy/db.py and the occurrence-pair helpers of      *)
(* iepy/models.py it calls.                                                *)
(*                                                                         *)
(* Scores are probabilities in hundredths (0.5 is 50, 0.99 is 99, 1 is     *)
(* 100).  Occurrence indices are positions in segment.entities, written    *)
(* 1-based.  Python's None is the value None below.                        *)
(***************************************************************************)
EXTENDS Integers, Sequences, FiniteSets, TLC

VARIABLES
    seed_facts,  \* the seed_facts argument of the constructor
    knowledge,   \* self.knowledge : Evidence -> score
    questions,   \* self.questions : Evidence -> score
    answers,     \* self.answers   : Evidence -> 0/1
    relations,   \* self.relations : relation label -> <<kind, kind>>
    pos,         \* index in self.steps of the step self.step_iterator yields next
    pc,          \* "idle": no call in progress; "running": inside do_iteration
    data,        \* the local variable `data` of do_iteration
    call,        \* the caller of the do_iteration in progress: start, force_process
    fresh,       \* that call is a start() on a pipeline nothing was called on before
    ran,         \* the stages that have returned in the do_iteration in progress
    last,        \* the stage entered most recently, over all calls
    started,     \* start() has been called
    clean,       \* every call finished so far returned normally
    entry,       \* knowledge, questions, pos and started when that call was made
    fn,          \* the function of Knowledge or of models.py applied on its own
    args,        \* the arguments it is applied to
    result,      \* what it returned
    document,    \* the fields of the IEDocument the preprocess results are set on
    objects      \* TextSegment.objects: the segments saved, as (start, end)

vars == <<seed_facts, knowledge, questions, answers, relations, pos, pc, data, call, fresh, ran,
          last, started, clean, entry, fn, args, result, document, objects>>

---------------------------------------------------------------------------
(* Values *)

None == -1

Half == 50
SeedScore == 100
evidence_threshold == 99
fact_threshold == 99

\* The number of distinct evidence the human may have answered at one time.
MaxAnswers == 3

Entity(kind, key) == [kind |-> kind, key |-> key]
Fact(e1, relation, e2) == [e1 |-> e1, relation |-> relation, e2 |-> e2]
Evidence(fact, segment, o1, o2) ==
    [fact |-> fact, segment |-> segment, o1 |-> o1, o2 |-> o2]

pA == Entity("person", "a")
pB == Entity("person", "b")
oX == Entity("organization", "x")

\* The entities the store holds (Entity.objects).
Entities == {pA, pB, oX}

\* The text segments the store holds: TextSegment.entities of each segment.
SegEntities == <<
    <<oX, pA>>,
    <<pA, oX, pB>>,
    <<pB>> >>
Segments == DOMAIN SegEntities

\* The scores a trained classifier may give to a candidate.
Scores == {0, evidence_threshold, 100}

EmptyK == [e \in {} |-> 0]

\* dict.update(other)
Update(k, u) ==
    [e \in (DOMAIN k) \cup (DOMAIN u) |-> IF e \in DOMAIN u THEN u[e] ELSE k[e]]

Restrict(k, S) == [e \in S |-> k[e]]

\* The values `data` takes in do_iteration.
NoneData == [type |-> "None"]
KnowledgeData(k) == [type |-> "Knowledge", map |-> k]
DictData(d) == [type |-> "dict", map |-> d]

\* Python values of a label: int(answer) is an int, score > 0.5 is a bool, and
\* True == 1, False == 0 for set membership.
IntLabel(n) == [ty |-> "int", v |-> n]
BoolLabel(b) == [ty |-> "bool", v |-> IF b THEN 1 ELSE 0]
PyEq(x, y) == x.v = y.v
PyIn(x, S) == \E y \in S : PyEq(x, y)

---------------------------------------------------------------------------
(* iepy/models.py, iepy/db.py *)

\* is_entity that compares the kinds only.
is_entity_by_kind(o, e) == o.kind = e.kind

\* EntityInSegment.is_entity
is_entity(o, e) == o.key = e.key /\ o.kind = e.kind

\* entity_occurrence_pairs that keeps the pairs in text order only.
entity_occurrence_pairs_in_order(segment, e1, e2) ==
    LET ents == SegEntities[segment]
        left == {i \in DOMAIN ents : is_entity(ents[i], e1)}
        right == {i \in DOMAIN ents : is_entity(ents[i], e2)}
    IN {p \in left \X right : p[1] < p[2]}

entity_occurrence_pairs(segment, e1, e2) ==
    LET ents == SegEntities[segment]
        left == {i \in DOMAIN ents : is_entity(ents[i], e1)}
        right == {i \in DOMAIN ents : is_entity(ents[i], e2)}
    IN {p \in left \X right : p[1] # p[2]}

\* kind_occurrence_pairs that pairs an occurrence with itself.
kind_occurrence_pairs_with_self(segment, lkind, rkind) ==
    LET ents == SegEntities[segment]
        left == {i \in DOMAIN ents : ents[i].kind = lkind}
        right == {i \in DOMAIN ents : ents[i].kind = rkind}
    IN left \X right

kind_occurrence_pairs(segment, lkind, rkind) ==
    LET ents == SegEntities[segment]
        left == {i \in DOMAIN ents : ents[i].kind = lkind}
        right == {i \in DOMAIN ents : ents[i].kind = rkind}
    IN {p \in left \X right : p[1] # p[2]}

segments_with_both_entities(entity_a, entity_b) ==
    {s \in Segments :
        /\ \E i \in DOMAIN SegEntities[s] : SegEntities[s][i].key = entity_a.key
        /\ \E i \in DOMAIN SegEntities[s] : SegEntities[s][i].key = entity_b.key}

segments_with_both_kinds(kind_a, kind_b) ==
    IF kind_a # kind_b
    THEN {s \in Segments :
            /\ \E i \in DOMAIN SegEntities[s] : SegEntities[s][i].kind = kind_a
            /\ \E i \in DOMAIN SegEntities[s] : SegEntities[s][i].kind = kind_b}
    ELSE {s \in Segments :
            Cardinality({i \in DOMAIN SegEntities[s] :
                            SegEntities[s][i].kind = kind_a}) >= 2}

get_entity(kind, literal) ==
    CHOOSE e \in Entities : e.kind = kind /\ e.key = literal

---------------------------------------------------------------------------
(* iepy/core.py *)

abs(x) == IF x < 0 THEN -x ELSE x

\* certainty without the absolute value.
certainty_signed(p) == IF p # None THEN Half + (p - Half) ELSE Half

certainty(p) == IF p # None THEN Half + abs(p - Half) ELSE Half

\* self.steps; "None" is the pause.
steps == <<"generalize_knowledge", "generate_questions", "None",
           "filter_evidence", "learn_fact_extractors", "extract_facts",
           "filter_facts">>

\* A cycle that wraps one step early, and so never yields filter_facts.
cycle_next_short(p) == (p + 1) % (Len(steps) - 1)

\* itertools.cycle(self.steps): the index that follows index p.
cycle_next(p) == (p + 1) % Len(steps)

\* __init__: Knowledge({Evidence(f, None, None, None): 1 for f in seed_facts})
seed_knowledge(seeds) ==
    [e \in {Evidence(f, None, None, None) : f \in seeds} |-> SeedScore]

\* The loop without the check of the kinds: the last seed visited wins.
RECURSIVE build_relations_unchecked(_, _, _)
build_relations_unchecked(ks, i, rels) ==
    IF i > Len(ks)
    THEN [raised |-> FALSE, relations |-> rels]
    ELSE LET e == ks[i]
             r == e.fact.relation
         IN build_relations_unchecked(ks, i + 1,
                [x \in (DOMAIN rels) \cup {r} |->
                    IF x = r THEN <<e.fact.e1.kind, e.fact.e2.kind>> ELSE rels[x]])

\* __init__: the loop that builds self.relations, visiting the keys of
\* self.knowledge in the order ks; raised is the ValueError.
RECURSIVE build_relations(_, _, _)
build_relations(ks, i, rels) ==
    IF i > Len(ks)
    THEN [raised |-> FALSE, relations |-> rels]
    ELSE LET e == ks[i]
             t1 == e.fact.e1.kind
             t2 == e.fact.e2.kind
             r == e.fact.relation
         IN IF r \in DOMAIN rels /\ <<t1, t2>> # rels[r]
            THEN [raised |-> TRUE, relations |-> rels]
            ELSE build_relations(ks, i + 1,
                     [x \in (DOMAIN rels) \cup {r} |->
                         IF x = r THEN <<t1, t2>> ELSE rels[x]])

\* start(): the evidences it enumerates from the store.
start_evidences(k) ==
    LET keys == UNION {UNION {
            {Evidence(x.fact, s, p[1], p[2]) :
                p \in entity_occurrence_pairs(s, x.fact.e1, x.fact.e2)} :
            s \in segments_with_both_entities(x.fact.e1, x.fact.e2)} :
            x \in DOMAIN k}
    IN [e \in keys |-> Half]

\* generalize_knowledge that keeps every item.
generalize_knowledge_keeping(k, evidence) == evidence

generalize_knowledge(k, evidence) ==
    LET facts == {ent.fact : ent \in DOMAIN k}
    IN Restrict(evidence, {x \in DOMAIN evidence : x.fact \in facts})

\* generate_questions that asks again what was answered.
generate_questions_again(ans, evidence) == evidence

generate_questions(ans, evidence) ==
    Restrict(evidence, {e \in DOMAIN evidence : e \notin DOMAIN ans})

\* filter_evidence whose automatic label overrides the human answer.
filter_evidence_overriding(ans, qs) ==
    LET evidence == [e \in DOMAIN ans |-> IntLabel(ans[e])]
        strong == {e \in DOMAIN qs : certainty(qs[e]) > evidence_threshold}
    IN Update(evidence, [e \in strong |-> BoolLabel(qs[e] > Half)])

filter_evidence(ans, qs) ==
    LET evidence == [e \in DOMAIN ans |-> IntLabel(ans[e])]
        strong == {e \in DOMAIN qs :
                      certainty(qs[e]) > evidence_threshold /\ e \notin DOMAIN ans}
    IN Update(evidence, [e \in strong |-> BoolLabel(qs[e] > Half)])

\* SortableDocumentMixin: documents compare by their id.  The id of an
\* Entity is its rank in the store; the id of a segment is its number.
id(doc) ==
    CASE doc = pA -> 1
      [] doc = pB -> 2
      [] doc = oX -> 3

\* The rank of a relation label in the order of Python's strings.
str_rank(label) ==
    CASE label = "knows" -> 1
      [] label = "likes" -> 2
      [] label = "works_for" -> 3

\* The fields of an Evidence in the order the namedtuples compare them:
\* fact (e1, relation, e2), segment, o1, o2.
evidence_tuple(e) ==
    <<id(e.fact.e1), str_rank(e.fact.relation), id(e.fact.e2),
      e.segment, e.o1, e.o2>>

\* Python's comparison of two tuples of one length: the first pair of
\* elements that differ decides; None and a document or a number do not
\* compare (TypeError, or AttributeError for None.id).
RECURSIVE py_cmp(_, _)
py_cmp(x, y) ==
    IF x = <<>> THEN "eq"
    ELSE IF Head(x) = Head(y) THEN py_cmp(Tail(x), Tail(y))
    ELSE IF Head(x) = None \/ Head(y) = None THEN "raise"
    ELSE IF Head(x) < Head(y) THEN "lt" ELSE "gt"

\* by_certainty: key_funct of the item e_s = <<evidence, score>>.
key_funct(e_s) ==
    <<IF e_s[2] # None THEN certainty(e_s[2]) ELSE 0>> \o evidence_tuple(e_s[1])

reversed(seq) == [i \in DOMAIN seq |-> seq[Len(seq) + 1 - i]]

Sorted(list) == [raised |-> FALSE, list |-> list]
SortRaised == [raised |-> TRUE, list |-> <<>>]

\* One step of a stable insertion sort by key_funct: x goes after the last
\* element of the sorted list s that is not greater than x.
RECURSIVE insort(_, _)
insort(s, x) ==
    IF s.raised THEN s
    ELSE IF s.list = <<>> THEN Sorted(<<x>>)
    ELSE LET n == Len(s.list)
             c == py_cmp(key_funct(x), key_funct(s.list[n]))
         IN IF c = "raise" THEN SortRaised
            ELSE IF c = "lt"
            THEN LET r == insort(Sorted(SubSeq(s.list, 1, n - 1)), x)
                 IN IF r.raised THEN r ELSE Sorted(Append(r.list, s.list[n]))
            ELSE Sorted(Append(s.list, x))

\* sorted(list, key=key_funct), ascending and stable; raised when a
\* comparison raises.
RECURSIVE sorted(_)
sorted(list) ==
    IF list = <<>> THEN Sorted(<<>>)
    ELSE insort(sorted(SubSeq(list, 1, Len(list) - 1)), list[Len(list)])

\* by_certainty that leaves out reverse=True.
by_certainty_ascending(its) == sorted(its)

\* Knowledge.by_certainty, of the items `its` of the Knowledge in the order
\* of the dict: sorted(self.items(), key=key_funct, reverse=True), which
\* sorts the reversed list and reverses the result.
by_certainty(its) ==
    LET r == sorted(reversed(its))
    IN IF r.raised THEN r ELSE Sorted(reversed(r.list))

\* The items of the Knowledge k in some order of the dict.
RECURSIVE items(_)
items(k) ==
    IF DOMAIN k = {} THEN <<>>
    ELSE LET e == CHOOSE x \in DOMAIN k : TRUE
         IN <<<<e, k[e]>>>> \o items(Restrict(k, (DOMAIN k) \ {e}))

\* questions_available()
questions_available(qs) == by_certainty(items(qs))

\* per_relation that gives every relation the whole Knowledge.
per_relation_whole(k) ==
    [r \in {e.fact.relation : e \in DOMAIN k} |-> k]

\* Knowledge.per_relation
per_relation(k) ==
    [r \in {e.fact.relation : e \in DOMAIN k} |->
        Restrict(k, {e \in DOMAIN k : e.fact.relation = r})]

\* learn_fact_extractors that looks for the bool objects True and False.
trained_relations_strict(evidence) ==
    LET pr == per_relation(evidence)
    IN {rel \in DOMAIN pr :
          LET yesno == {pr[rel][e] : e \in DOMAIN pr[rel]}
          IN ~(BoolLabel(TRUE) \notin yesno \/ BoolLabel(FALSE) \notin yesno)}

\* learn_fact_extractors: the relations a classifier is trained for.
trained_relations(evidence) ==
    LET pr == per_relation(evidence)
    IN {rel \in DOMAIN pr :
          LET yesno == {pr[rel][e] : e \in DOMAIN pr[rel]}
          IN ~(~PyIn(BoolLabel(TRUE), yesno) \/ ~PyIn(BoolLabel(FALSE), yesno))}

\* The candidate evidence with the two entities taken in the other order.
candidates_swapped(r, lkind, rkind) ==
    UNION {
        {LET ents == SegEntities[segment]
             e1 == get_entity(ents[p[1]].kind, ents[p[1]].key)
             e2 == get_entity(ents[p[2]].kind, ents[p[2]].key)
         IN Evidence(Fact(e2, r, e1), segment, p[2], p[1]) :
            p \in kind_occurrence_pairs(segment, lkind, rkind)} :
        segment \in segments_with_both_kinds(lkind, rkind)}

\* extract_facts: the candidate evidence of relation r.
candidates(r, lkind, rkind) ==
    UNION {
        {LET ents == SegEntities[segment]
             e1 == get_entity(ents[p[1]].kind, ents[p[1]].key)
             e2 == get_entity(ents[p[2]].kind, ents[p[2]].key)
         IN Evidence(Fact(e1, r, e2), segment, p[1], p[2]) :
            p \in kind_occurrence_pairs(segment, lkind, rkind)} :
        segment \in segments_with_both_kinds(lkind, rkind)}

\* A trained classifier (iepy.fact_extractor): classes is classes_ (the sorted
\* labels), and ps its probability that a candidate is evidence.
Classifiers(cands) ==
    [classes : {<<0, 1>>}, ps : [cands -> Scores]]

\* predictor.predict_proba: one row per evidence, one column per class.
predict_proba(c, evidence) ==
    [e \in evidence |->
        [i \in DOMAIN c.classes |->
            IF c.classes[i] = 1 THEN c.ps[e] ELSE 100 - c.ps[e]]]

\* list(classifier.classes_).index(True)
true_index(c) == CHOOSE i \in DOMAIN c.classes : c.classes[i] = 1

extract_facts(rels, extractors) ==
    LET scored(r) ==
            LET evidence == candidates(r, rels[r][1], rels[r][2])
            IN IF extractors.type = "dict" /\ r \in DOMAIN extractors.map
               THEN LET c == extractors.map[r]
                        ps == predict_proba(c, evidence)
                    IN [e \in evidence |-> ps[e][true_index(c)]]
               ELSE [e \in evidence |-> Half]
        keys == UNION {DOMAIN scored(r) : r \in DOMAIN rels}
    IN [e \in keys |-> scored(e.fact.relation)[e]]

\* filter_facts that accepts a score equal to the threshold.
filter_facts_at_threshold(k, facts) ==
    Update(k, Restrict(facts, {e \in DOMAIN facts : facts[e] >= fact_threshold}))

\* filter_facts that replaces the knowledge by the accepted facts.
filter_facts_replacing(k, facts) ==
    Restrict(facts, {e \in DOMAIN facts : facts[e] > fact_threshold})

filter_facts(k, facts) ==
    Update(k, Restrict(facts, {e \in DOMAIN facts : facts[e] > fact_threshold}))

\* int(answer) of a boolean answer
int(answer) == IF answer THEN 1 ELSE 0

---------------------------------------------------------------------------
(* The pipelines checked *)

\* The seed facts the pipelines are constructed with: none, two relations of
\* different kind pairs, one relation between entities of one kind, two such
\* relations, and one relation with two kind pairs (of two and of three
\* seeds).
SeedSets == {
    {},
    {Fact(pA, "works_for", oX), Fact(pA, "knows", pB)},
    {Fact(pA, "knows", pB)},
    {Fact(pA, "knows", pB), Fact(pB, "likes", pA)},
    {Fact(pA, "works_for", oX), Fact(oX, "works_for", pA)},
    {Fact(pA, "works_for", oX), Fact(pB, "works_for", oX),
     Fact(oX, "works_for", pB)} }

\* The orders in which a loop may visit the set S.
Orders(S) ==
    {ks \in [1..Cardinality(S) -> S] :
        \A i, j \in 1..Cardinality(S) : i # j => ks[i] # ks[j]}

\* The candidate evidence of the relations of table rels.
all_candidates(rels) ==
    UNION {candidates(r, rels[r][1], rels[r][2]) : r \in DOMAIN rels}

\* The dicts learn_fact_extractors may return: a classifier for every relation
\* of `trained`, which scores the candidates extract_facts will give it.
ClassifierDicts(trained, rels) ==
    LET cands(r) == IF r \in DOMAIN rels
                    THEN candidates(r, rels[r][1], rels[r][2]) ELSE {}
    IN {d \in [trained -> UNION {Classifiers(cands(r)) : r \in trained}] :
          \A r \in trained : d[r] \in Classifiers(cands(r))}

\* No call is in progress.
NoEntry == <<>>

\* An IEDocument created with raw text only, and no segment saved.
RawDocument ==
    [tokens |-> <<>>, offsets |-> <<>>, postags |-> <<>>, sentences |-> <<>>,
     entities |-> <<>>, preprocess_metadata |-> {}]

NoDocument ==
    /\ document = RawDocument
    /\ objects = <<>>

Init ==
    \E seeds \in SeedSets :
      \E ks \in Orders(DOMAIN seed_knowledge(seeds)) :
        LET b == build_relations(ks, 1, EmptyK)
        IN /\ seed_facts = seeds
           /\ pc = IF b.raised THEN "no_pipeline" ELSE "idle"
           /\ knowledge = IF b.raised THEN EmptyK ELSE seed_knowledge(seeds)
           /\ relations = IF b.raised THEN EmptyK ELSE b.relations
           /\ questions = EmptyK
           /\ answers = EmptyK
           /\ pos = 0
           /\ data = NoneData
           /\ call = "none"
           /\ fresh = FALSE
           /\ ran = <<>>
           /\ last = "none"
           /\ started = FALSE
           /\ clean = TRUE
           /\ entry = NoEntry
           /\ fn = "none"
           /\ args = <<>>
           /\ result = <<>>
           /\ NoDocument

---------------------------------------------------------------------------
(* The user API *)

\* do_iteration(d) is entered.
Enter(name, d) ==
    /\ pc = "idle"
    /\ pc' = "running"
    /\ data' = d
    /\ call' = name
    /\ fresh' = (name = "start" /\ ~started /\ clean /\ answers = EmptyK)
    /\ ran' = <<>>
    /\ entry' = [knowledge |-> knowledge, questions |-> questions,
                 pos |-> pos, started |-> started]
    /\ UNCHANGED <<seed_facts, knowledge, questions, answers, relations, pos,
                   last, clean, fn, args, result, document, objects>>

start ==
    /\ Enter("start", KnowledgeData(start_evidences(knowledge)))
    /\ started' = TRUE

force_process ==
    /\ Enter("force_process", NoneData)
    /\ UNCHANGED started

\* add_answer that also withdraws the answered question.
add_answer_popping(evidence, answer) ==
    /\ pc = "idle"
    /\ evidence \in DOMAIN answers \/ Cardinality(DOMAIN answers) < MaxAnswers
    /\ answers' = Update(answers, [e \in {evidence} |-> int(answer)])
    /\ questions' = Restrict(questions, (DOMAIN questions) \ {evidence})
    /\ UNCHANGED <<seed_facts, knowledge, relations, pos, pc, data, call, fresh,
                   ran, last, started, clean, entry, fn, args, result, document,
                   objects>>

add_answer(evidence, answer) ==
    /\ pc = "idle"
    /\ evidence \in DOMAIN answers \/ Cardinality(DOMAIN answers) < MaxAnswers
    /\ answers' = Update(answers, [e \in {evidence} |-> int(answer)])
    /\ UNCHANGED <<seed_facts, knowledge, questions, relations, pos, pc, data,
                   call, fresh, ran, last, started, clean, entry, fn, args,
                   result, document, objects>>

---------------------------------------------------------------------------
(* do_iteration: one step of `for step in self.step_iterator` *)

\* The iterator yields the step `stage`.
Yield(stage) ==
    /\ pc = "running"
    /\ steps[pos + 1] = stage
    /\ pos' = cycle_next(pos)
    /\ UNCHANGED <<fn, args, result, document, objects>>

\* The step is a stage, and do_iteration calls it.
Stage(stage) ==
    /\ Yield(stage)
    /\ last' = stage
    /\ UNCHANGED <<seed_facts, answers, relations, started>>

\* do_iteration is left, and the API call with it.
Leave ==
    /\ pc' = "idle"
    /\ data' = NoneData
    /\ call' = "none"
    /\ fresh' = FALSE
    /\ ran' = <<>>
    /\ entry' = NoEntry

\* The stage returns d, and the loop goes on.
Returns(stage, d) ==
    /\ data' = d
    /\ ran' = Append(ran, stage)
    /\ UNCHANGED <<pc, call, fresh, clean, entry>>

\* The stage raises: the exception leaves do_iteration and the API call.
Raises ==
    /\ Leave
    /\ clean' = FALSE

\* The step is None: do_iteration returns.
pause ==
    /\ Yield("None")
    /\ Leave
    /\ UNCHANGED <<seed_facts, knowledge, questions, answers, relations, last,
                   started, clean>>

\* evidence.items() of None raises AttributeError.
do_generalize_knowledge ==
    /\ Stage("generalize_knowledge")
    /\ \/ /\ data.type = "Knowledge"
          /\ Returns("generalize_knowledge",
                     KnowledgeData(generalize_knowledge(knowledge, data.map)))
       \/ data.type = "None" /\ Raises
    /\ UNCHANGED <<knowledge, questions>>

do_generate_questions ==
    /\ Stage("generate_questions")
    /\ \/ /\ data.type = "Knowledge"
          /\ questions' = generate_questions(answers, data.map)
          /\ Returns("generate_questions", NoneData)
       \/ data.type = "None" /\ Raises /\ UNCHANGED questions
    /\ UNCHANGED knowledge

\* A filter_evidence that labels the evidence it is given.
do_filter_evidence_of_data ==
    /\ Stage("filter_evidence")
    /\ Returns("filter_evidence",
               IF data.type = "Knowledge"
               THEN KnowledgeData([e \in DOMAIN data.map |->
                                      BoolLabel(data.map[e] > Half)])
               ELSE KnowledgeData(filter_evidence(answers, questions)))
    /\ UNCHANGED <<knowledge, questions>>

\* filter_evidence(self, _): the argument is not used.
do_filter_evidence ==
    /\ Stage("filter_evidence")
    /\ Returns("filter_evidence", KnowledgeData(filter_evidence(answers, questions)))
    /\ UNCHANGED <<knowledge, questions>>

\* The input is the Knowledge filter_evidence returned in this call.  The
\* second disjunct is FactExtractorFactory raising.
do_learn_fact_extractors ==
    /\ Stage("learn_fact_extractors")
    /\ \/ \E d \in ClassifierDicts(trained_relations(data.map), relations) :
              Returns("learn_fact_extractors", DictData(d))
       \/ trained_relations(data.map) # {} /\ Raises
    /\ UNCHANGED <<knowledge, questions>>

\* `r in extractors` of None raises TypeError, in the first turn of the loop
\* over self.relations.  The third disjunct is the store or the classifier
\* raising.
do_extract_facts ==
    /\ Stage("extract_facts")
    /\ \/ /\ data.type # "None" \/ DOMAIN relations = {}
          /\ Returns("extract_facts", KnowledgeData(extract_facts(relations, data)))
       \/ data.type = "None" /\ DOMAIN relations # {} /\ Raises
       \/ data.type # "None" /\ DOMAIN relations # {} /\ Raises
    /\ UNCHANGED <<knowledge, questions>>

\* facts.items() of None raises AttributeError, before any update.
do_filter_facts ==
    /\ Stage("filter_facts")
    /\ \/ /\ data.type = "Knowledge"
          /\ knowledge' = filter_facts(knowledge, data.map)
          /\ Returns("filter_facts", data)
       \/ data.type = "None" /\ Raises /\ UNCHANGED knowledge
    /\ UNCHANGED questions

\* The human answers the questions asked, and may change an answer given.
Next ==
    \/ start
    \/ force_process
    \/ \E evidence \in (DOMAIN questions) \cup (DOMAIN answers), answer \in BOOLEAN :
          add_answer(evidence, answer)
    \/ pause
    \/ do_generalize_knowledge
    \/ do_generate_questions
    \/ do_filter_evidence
    \/ do_learn_fact_extractors
    \/ do_extract_facts
    \/ do_filter_facts

Spec == Init /\ [][Next]_vars

---------------------------------------------------------------------------
(* The functions of Knowledge and of iepy/models.py, applied on their own *)

pipeline_vars == <<seed_facts, knowledge, questions, answers, relations, pos, pc,
                   data, call, fresh, ran, last, started, clean, entry>>

\* No pipeline is constructed.
NoPipeline ==
    /\ seed_facts = {}
    /\ knowledge = EmptyK
    /\ questions = EmptyK
    /\ answers = EmptyK
    /\ relations = EmptyK
    /\ pos = 0
    /\ pc = "no_pipeline"
    /\ data = NoneData
    /\ call = "none"
    /\ fresh = FALSE
    /\ ran = <<>>
    /\ last = "none"
    /\ started = FALSE
    /\ clean = TRUE
    /\ entry = NoEntry

\* The function name is applied to the arguments chosen, and returns value.
Apply(name, value) ==
    /\ fn = "none"
    /\ fn' = name
    /\ result' = value
    /\ UNCHANGED <<args, pipeline_vars, document, objects>>

\* The scores of a Knowledge: probabilities in hundredths.
AllScores == 0..100

InitCertainty ==
    /\ NoPipeline
    /\ NoDocument
    /\ fn = "none"
    /\ args \in AllScores \cup {None}
    /\ result = <<>>

call_certainty == Apply("certainty", certainty(args))

SpecCertainty == InitCertainty /\ [][call_certainty]_vars

\* _interval_offsets: the loop that reduces the range for both endpoints.
\* Indices count from 0, as in the source; keys is a mapped by key.
RECURSIVE reduce_range(_, _, _, _, _, _)
reduce_range(keys, xl, xr, lo, hi, mid) ==
    IF lo < hi
    THEN LET m == (lo + hi) \div 2
             v == keys[m + 1]
         IN IF xl <= v /\ xr <= v THEN reduce_range(keys, xl, xr, lo, m, m)
            ELSE IF v < xl /\ v < xr THEN reduce_range(keys, xl, xr, m + 1, hi, m)
            ELSE [lo |-> lo, hi |-> hi, mid |-> m]
    ELSE [lo |-> lo, hi |-> hi, mid |-> mid]

\* _interval_offsets: the loop that finds the left bisection point.
RECURSIVE bisect_left(_, _, _, _)
bisect_left(keys, xl, llo, lhi) ==
    IF llo < lhi
    THEN LET mid == (llo + lhi) \div 2
         IN IF keys[mid + 1] < xl
            THEN bisect_left(keys, xl, mid + 1, lhi)
            ELSE bisect_left(keys, xl, llo, mid)
    ELSE llo

\* The right bisection that takes the elements of key xr into the interval.
RECURSIVE bisect_right_inclusive(_, _, _, _)
bisect_right_inclusive(keys, xr, rlo, rhi) ==
    IF rlo < rhi
    THEN LET mid == (rlo + rhi) \div 2
         IN IF xr < keys[mid + 1]
            THEN bisect_right_inclusive(keys, xr, rlo, mid)
            ELSE bisect_right_inclusive(keys, xr, mid + 1, rhi)
    ELSE rlo

\* _interval_offsets: the loop that finds the right bisection point.
RECURSIVE bisect_right(_, _, _, _)
bisect_right(keys, xr, rlo, rhi) ==
    IF rlo < rhi
    THEN LET mid == (rlo + rhi) \div 2
         IN IF xr <= keys[mid + 1]
            THEN bisect_right(keys, xr, rlo, mid)
            ELSE bisect_right(keys, xr, mid + 1, rhi)
    ELSE rlo

Offsets(l, r) == [raised |-> FALSE, l |-> l, r |-> r]
OffsetsRaised == [raised |-> TRUE, l |-> 0, r |-> 0]

\* _interval_offsets(a, xl, xr, key=key) with lo = 0 and hi = len(a); raised
\* is the ValueError or the AssertionError.
_interval_offsets(keys, xl, xr) ==
    IF xl > xr THEN OffsetsRaised
    ELSE IF Len(keys) = 0 THEN Offsets(0, Len(keys))
    ELSE LET rg == reduce_range(keys, xl, xr, 0, Len(keys), None)
             llo == bisect_left(keys, xl, rg.lo, rg.mid)
             rlo == bisect_right(keys, xr, rg.mid, rg.hi)
         IN IF /\ rg.lo = llo \/ keys[llo] < xl
               /\ rg.hi = rlo \/ keys[rlo + 1] >= xr
            THEN Offsets(llo, rlo)
            ELSE OffsetsRaised

\* The length of the sequences given to _interval_offsets, and their keys.
MaxLen == 4
MaxKey == 4

\* The sequences of at most MaxLen keys sorted by key.
SortedSeqs ==
    UNION {{a \in [1..n -> 0..MaxKey] : \A i, j \in 1..n : i < j => a[i] <= a[j]} :
           n \in 0..MaxLen}

\* A longer sequence, with a repeated key: [1, 3, 3, 5, 8] and [3, 5).
ExampleOffsets == [a |-> <<1, 3, 3, 5, 8>>, xl |-> 3, xr |-> 5]

InitIntervalOffsets ==
    /\ NoPipeline
    /\ NoDocument
    /\ fn = "none"
    /\ args \in {ExampleOffsets} \cup
                {[a |-> a, xl |-> xl, xr |-> xr] :
                    a \in SortedSeqs, xl \in 0..(MaxKey + 1), xr \in 0..(MaxKey + 1)}
    /\ args.xl <= args.xr
    /\ result = <<>>

call_interval_offsets ==
    Apply("_interval_offsets", _interval_offsets(args.a, args.xl, args.xr))

SpecIntervalOffsets == InitIntervalOffsets /\ [][call_interval_offsets]_vars

\* An IEDocument: the number of its tokens, its sentences (token offsets)
\* and its entity occurrences, each with offset and offset_end.
IEDocument(ntokens, sentences, entities) ==
    [ntokens |-> ntokens, sentences |-> sentences, entities |-> entities]

EntityOccurrence(offset, offset_end) == [offset |-> offset, offset_end |-> offset_end]

\* The loop that stops at the first occurrence whose offset is beyond bound.
RECURSIVE scan_beyond(_, _, _, _, _)
scan_beyond(entities, k, bound, entity, n) ==
    IF k >= Len(entities) THEN [entity |-> entity, n |-> n]
    ELSE IF entities[k + 1].offset > bound THEN [entity |-> k, n |-> n]
    ELSE scan_beyond(entities, k + 1, bound, k, n + 1)

\* build_syntactic_segments: `for entity in range(entity, len(self.entities))`
\* that breaks at the first occurrence of offset >= bound, at index k of the
\* range; entity is the loop variable, which keeps its last value, and n the
\* number of turns that did not break.  Indices count from 0.
RECURSIVE scan(_, _, _, _, _)
scan(entities, k, bound, entity, n) ==
    IF k >= Len(entities) THEN [entity |-> entity, n |-> n]
    ELSE IF entities[k + 1].offset >= bound THEN [entity |-> k, n |-> n]
    ELSE scan(entities, k + 1, bound, k, n + 1)

\* build_syntactic_segments, from sentence i on: the (start, end) of the
\* segments it builds, in order.
RECURSIVE syntactic_segments_from(_, _, _)
syntactic_segments_from(doc, i, entity) ==
    LET L == Len(doc.sentences)
    IN IF i >= L THEN <<>>
       ELSE LET start_ == doc.sentences[i + 1]
                end == IF i + 1 < L THEN doc.sentences[i + 2] ELSE doc.ntokens
                skipped == scan(doc.entities, entity, start_, entity, 0)
                counted == scan(doc.entities, skipped.entity, end, skipped.entity, 0)
            IN (IF counted.n >= 2 THEN << <<start_, end>> >> ELSE <<>>)
               \o syntactic_segments_from(doc, i + 1, counted.entity)

\* IEDocument.build_syntactic_segments
build_syntactic_segments(doc) == syntactic_segments_from(doc, 0, 0)

\* The loop that takes two occurrences at distance d for close.
RECURSIVE skip_far_strict(_, _, _)
skip_far_strict(entities, i, d) ==
    IF entities[i + 2].offset - entities[i + 1].offset_end > d
    THEN IF i + 2 = Len(entities)
         THEN [i |-> i + 1, returned |-> TRUE]
         ELSE skip_far_strict(entities, i + 1, d)
    ELSE [i |-> i, returned |-> FALSE]

\* build_contextual_segments: the loop that skips the pairs of occurrences
\* that are not close; returned when it ends the method.
RECURSIVE skip_far(_, _, _)
skip_far(entities, i, d) ==
    IF entities[i + 2].offset - entities[i + 1].offset_end >= d
    THEN IF i + 2 = Len(entities)
         THEN [i |-> i + 1, returned |-> TRUE]
         ELSE skip_far(entities, i + 1, d)
    ELSE [i |-> i, returned |-> FALSE]

max(x, y) == IF x >= y THEN x ELSE y
min(x, y) == IF x <= y THEN x ELSE y

\* build_contextual_segments: the loop that moves start off the occurrences
\* it would split, from occurrence j down.
RECURSIVE widen_start(_, _, _)
widen_start(entities, j, start_) ==
    IF j >= 0 /\ entities[j + 1].offset_end > start_
    THEN widen_start(entities, j - 1, min(start_, entities[j + 1].offset))
    ELSE start_

\* The segment end left as computed.
RECURSIVE widen_end_not(_, _, _)
widen_end_not(entities, j, end) == end

\* build_contextual_segments: the loop that moves end off the occurrences it
\* would split, from occurrence j up.
RECURSIVE widen_end(_, _, _)
widen_end(entities, j, end) ==
    IF j < Len(entities) /\ entities[j + 1].offset < end
    THEN widen_end(entities, j + 1, max(end, entities[j + 1].offset_end))
    ELSE end

\* build_contextual_segments(d): one turn of `while i + 1 < L`, from the
\* locals st = (L, i, lstart, lend) and the segments built so far.
contextual_turn(doc, d, st) ==
    LET entities == doc.entities
        L == st.L
    IN IF ~(st.i + 1 < L) THEN [st EXCEPT !.returned = TRUE]
       ELSE LET sk == skip_far(entities, st.i, d)
                i == sk.i
            IN IF sk.returned THEN [st EXCEPT !.i = i, !.returned = TRUE]
               ELSE LET left == entities[i + 1]
                        middle == entities[i + 2]
                        right == IF /\ i + 2 < L
                                    /\ entities[i + 3].offset - middle.offset_end < d
                                 THEN entities[i + 3] ELSE middle
                        start_ == widen_start(entities, i, max(0, left.offset - d))
                        end == widen_end(entities, i,
                                         min(right.offset_end + d, doc.ntokens))
                    IN [L |-> L, i |-> i + 1, lstart |-> start_, lend |-> end,
                        segments |->
                            IF ~(end = st.lend /\ start_ >= st.lstart)
                            THEN Append(st.segments, <<start_, end>>)
                            ELSE st.segments,
                        returned |-> FALSE]

\* build_contextual_segments: the locals before the first turn of the loop.
contextual_entry(doc) ==
    [L |-> Len(doc.entities), i |-> 0, lstart |-> -1, lend |-> -1,
     segments |-> <<>>, returned |-> FALSE]

\* build_contextual_segments(d) run to its return, from the locals st: the
\* (start, end) of the segments it builds, in order.
RECURSIVE contextual_segments(_, _, _)
contextual_segments(doc, d, st) ==
    IF st.returned THEN st.segments
    ELSE contextual_segments(doc, d, contextual_turn(doc, d, st))

\* The sizes of the documents split into sentences: tokens and entity
\* occurrences.
MaxTokens == 4
MaxOccurrences == 3

\* The valid sentence lists of a document of T tokens: strictly increasing,
\* from 0 to T (set_preprocess_result checks it).
SentenceLists(T) ==
    UNION {{ss \in [1..n -> 0..T] :
               /\ ss[1] = 0 /\ ss[n] = T
               /\ \A i, j \in 1..n : i < j => ss[i] < ss[j]} :
           n \in 1..(T + 1)}

\* The lists of at most N occurrences in a document of T tokens, sorted by
\* offset.
OccurrenceLists(T, N) ==
    LET occs == {EntityOccurrence(a, b) : a \in 0..T, b \in 0..T}
        inside == {o \in occs : o.offset < o.offset_end}
    IN UNION {{es \in [1..n -> inside] :
                  \A i, j \in 1..n : i < j => es[i].offset <= es[j].offset} :
              n \in 0..N}

InitSyntactic ==
    /\ NoPipeline
    /\ NoDocument
    /\ fn = "none"
    /\ \E T \in 0..MaxTokens :
          \E ss \in SentenceLists(T), es \in OccurrenceLists(T, MaxOccurrences) :
              args = [doc |-> IEDocument(T, ss, es)]
    /\ result = <<>>

call_build_syntactic_segments ==
    Apply("build_syntactic_segments", build_syntactic_segments(args.doc))

SpecSyntactic == InitSyntactic /\ [][call_build_syntactic_segments]_vars

\* The sizes of the documents cut into windows: tokens, entity occurrences,
\* and the distance d.
WindowTokens == 5
WindowOccurrences == 4
MaxD == 2

\* Documents of one sentence.
InitContextual ==
    /\ NoPipeline
    /\ NoDocument
    /\ fn = "none"
    /\ \E T \in 0..WindowTokens :
          \E es \in OccurrenceLists(T, WindowOccurrences), d \in -1..MaxD :
              args = [doc |-> IEDocument(T, IF T = 0 THEN <<0>> ELSE <<0, T>>, es),
                      d |-> d]
    /\ result = <<>>

\* build_contextual_segments(d) is entered.
call_build_contextual_segments ==
    Apply("build_contextual_segments", contextual_entry(args.doc))

\* One turn of its loop.
build_contextual_segments ==
    /\ fn = "build_contextual_segments"
    /\ ~result.returned
    /\ result' = contextual_turn(args.doc, args.d, result)
    /\ UNCHANGED <<fn, args, pipeline_vars, document, objects>>

NextContextual ==
    \/ call_build_contextual_segments
    \/ build_contextual_segments

SpecContextual == InitContextual /\ [][NextContextual]_vars

\* The sizes of the documents whose segments are built again, and the number
\* of builds.
RebuildTokens == 3
RebuildOccurrences == 2
MaxRuns == 2

InitRebuild ==
    /\ NoPipeline
    /\ NoDocument
    /\ fn = "none"
    /\ \E T \in 0..RebuildTokens :
          \E ss \in SentenceLists(T), es \in OccurrenceLists(T, RebuildOccurrences),
             d \in 0..MaxD :
              args = [doc |-> IEDocument(T, ss, es), d |-> d]
    /\ result = [built |-> <<>>, runs |-> 0]

\* A builder runs on the document: every segment it builds is saved.
Build(name, built) ==
    /\ result.runs < MaxRuns
    /\ fn' = name
    /\ result' = [built |-> built, runs |-> result.runs + 1]
    /\ objects' = objects \o built
    /\ UNCHANGED <<args, pipeline_vars, document>>

run_build_syntactic_segments ==
    Build("build_syntactic_segments", build_syntactic_segments(args.doc))

run_build_contextual_segments ==
    Build("build_contextual_segments",
          contextual_segments(args.doc, args.d, contextual_entry(args.doc)))

\* IEDocument.clear_segments
clear_segments ==
    /\ fn # "none"
    /\ fn' = "clear_segments"
    /\ objects' = <<>>
    /\ UNCHANGED <<args, result, pipeline_vars, document>>

NextRebuild ==
    \/ run_build_syntactic_segments
    \/ run_build_contextual_segments
    \/ clear_segments

SpecRebuild == InitRebuild /\ [][NextRebuild]_vars

PreProcessSteps == {"tokenization", "sentencer", "tagging", "ner", "segmentation"}

\* The steps that have a field: the keys of preprocess_fields_mapping.
preprocess_fields_mapping == {"tokenization", "sentencer", "tagging", "ner"}

\* The elements of the sequence, as a set.
set(seq) == {seq[i] : i \in DOMAIN seq}

\* The checks of a sentencer result that stop at an unordered list.
sentencer_error_ordered_only(tokens, res) ==
    IF \E i, j \in DOMAIN res : i < j /\ res[i] > res[j] THEN "ValueError"
    ELSE "none"

\* set_preprocess_result: the checks of a sentencer result, in their order;
\* the exception raised, or "none".  result[0] of an empty list raises
\* IndexError.
sentencer_error(tokens, res) ==
    IF \E i, j \in DOMAIN res : i < j /\ res[i] > res[j] THEN "ValueError"
    ELSE IF Cardinality(set(res)) < Len(res) THEN "ValueError"
    ELSE IF Len(res) = 0 THEN "IndexError"
    ELSE IF res[1] # 0 THEN "ValueError"
    ELSE IF res[Len(res)] # Len(tokens) THEN "ValueError"
    ELSE "none"

\* set_preprocess_result: the check of a tagging result.
tagging_error(tokens, res) ==
    IF Len(res) # Len(tokens) THEN "ValueError" ELSE "none"

\* IEDocument.flag_preprocess_done
flag_preprocess_done(doc, step) ==
    [doc EXCEPT !.preprocess_metadata = @ \cup {step}]

\* set_preprocess_result: the setattr of the fields of the step; the result
\* of the tokenization is a list of (offset, token), unzipped into two fields.
setattr(doc, step, res) ==
    IF step = "tokenization"
    THEN [doc EXCEPT !.offsets = [i \in DOMAIN res |-> res[i][1]],
                     !.tokens = [i \in DOMAIN res |-> res[i][2]]]
    ELSE IF step = "sentencer" THEN [doc EXCEPT !.sentences = res]
    ELSE IF step = "tagging" THEN [doc EXCEPT !.postags = res]
    ELSE [doc EXCEPT !.entities = res]

\* IEDocument.set_preprocess_result(step, result) on the document doc: the
\* document it leaves and the exception it raised, or "none".
preprocess_result(doc, step, res) ==
    LET raised ==
            IF step \notin PreProcessSteps THEN "InvalidPreprocessSteps"
            ELSE IF step = "sentencer" THEN sentencer_error(doc.tokens, res)
            ELSE IF step = "tagging" THEN tagging_error(doc.tokens, res)
            ELSE IF step \notin preprocess_fields_mapping THEN "KeyError"
            ELSE "none"
    IN IF raised # "none"
       THEN [document |-> doc, raised |-> raised]
       ELSE [document |-> flag_preprocess_done(setattr(doc, step, res), step),
             raised |-> raised]

\* The number of tokens of the documents that are preprocessed, and the
\* length of the sentencer results.
MaxDocTokens == 2
MaxBoundaries == 2

\* The results given to set_preprocess_result: n tokens with their offsets,
\* any list of sentence offsets, n tags, and lists of occurrences.
TokenizationResult(n) == [i \in 1..n |-> <<2 * (i - 1), "token">>]

SentencerResults ==
    UNION {[1..n -> 0..MaxDocTokens] : n \in 0..MaxBoundaries}

TaggingResult(n) == [i \in 1..n |-> "tag"]

NerResults == {<<>>, <<EntityOccurrence(0, 1)>>}

InitPreprocess ==
    /\ NoPipeline
    /\ NoDocument
    /\ fn = "none"
    /\ args = <<>>
    /\ result = <<>>

set_preprocess_result(step, res) ==
    LET out == preprocess_result(document, step, res)
    IN /\ fn' = "set_preprocess_result"
       /\ args' = [step |-> step, result |-> res]
       /\ result' = out.raised
       /\ document' = out.document
       /\ UNCHANGED <<pipeline_vars, objects>>

NextPreprocess ==
    \/ \E n \in 0..MaxDocTokens :
          set_preprocess_result("tokenization", TokenizationResult(n))
    \/ \E res \in SentencerResults : set_preprocess_result("sentencer", res)
    \/ \E n \in 0..(MaxDocTokens + 1) :
          set_preprocess_result("tagging", TaggingResult(n))
    \/ \E res \in NerResults : set_preprocess_result("ner", res)
    \/ set_preprocess_result("segmentation", <<>>)
    \/ set_preprocess_result("parsing", <<>>)

SpecPreprocess == InitPreprocess /\ [][NextPreprocess]_vars

\* The evidence of the Knowledge instances checked: a seed evidence, two
\* evidence of its fact in two segments, and an evidence of another relation.
KEvidence == {
    Evidence(Fact(pA, "works_for", oX), None, None, None),
    Evidence(Fact(pA, "works_for", oX), 1, 2, 1),
    Evidence(Fact(pA, "works_for", oX), 2, 1, 2),
    Evidence(Fact(pA, "knows", pB), 2, 1, 3) }

\* The scores they have: unknown, 0, 0.5 and 1.
KScores == {None, 0, Half, 100}

\* The number of entries of a Knowledge.
MaxItems == 3

\* The Knowledge instances, each as the list of its items in the order of the
\* dict.
ItemLists ==
    UNION {{its \in [1..n -> KEvidence \X KScores] :
               \A i, j \in 1..n : i # j => its[i][1] # its[j][1]} :
           n \in 0..MaxItems}

\* Knowledge(items): the dict of the items.
Knowledge(its) ==
    [e \in {its[i][1] : i \in DOMAIN its} |->
        its[CHOOSE i \in DOMAIN its : its[i][1] = e][2]]

InitKnowledge ==
    /\ NoPipeline
    /\ NoDocument
    /\ fn = "none"
    /\ args \in ItemLists
    /\ result = <<>>

call_by_certainty == Apply("by_certainty", by_certainty(args))

call_per_relation == Apply("per_relation", per_relation(Knowledge(args)))

NextKnowledge == call_by_certainty \/ call_per_relation

SpecKnowledge == InitKnowledge /\ [][NextKnowledge]_vars

---------------------------------------------------------------------------
(* Properties *)

\* The stages of one cycle, from the pause on.
CycleStages == <<"filter_evidence", "learn_fact_extractors", "extract_facts",
                 "filter_facts", "generalize_knowledge", "generate_questions">>

StageIndex(stage) == CHOOSE i \in DOMAIN CycleStages : CycleStages[i] = stage

StageAfter(stage) == CycleStages[(StageIndex(stage) % Len(CycleStages)) + 1]

IsPrefix(p, q) == Len(p) <= Len(q) /\ \A i \in DOMAIN p : p[i] = q[i]

\* The step taken calls the stage `stage` (two successive stages differ).
Calls(stage) == last' = stage /\ last # stage

\* The stage `stage` has just returned, in the state.
Returned(stage) ==
    pc = "running" /\ ran # <<>> /\ ran[Len(ran)] = stage /\ last = stage

\* The step taken is the return of do_iteration at the pause.
ReturnsAtPause == pc = "running" /\ pc' = "idle" /\ steps[pos + 1] = "None"

\* A force_process() call made after start(), with every call so far returned
\* normally, has run a prefix of the six stages, and all six when the pause
\* comes.
C1_Call ==
    (pc = "running" /\ started /\ clean /\ call = "force_process") =>
        /\ IsPrefix(ran, CycleStages)
        /\ steps[pos + 1] = "None" => ran = CycleStages

\* Such a call returns after the six stages, and leaves the pipeline at
\* filter_evidence.
C1_Returns ==
    (ReturnsAtPause /\ started /\ clean /\ call = "force_process") =>
        ran = CycleStages /\ steps[pos' + 1] = "filter_evidence"

\* Every stage called is the successor, in the cycle, of the stage called
\* before it, whatever the calls made.
C1_Cyclic ==
    (last' # last /\ last # "none") => last' = StageAfter(last)

\* C1: after start() and with every earlier call returned normally, each
\* force_process() call runs filter_evidence, learn_fact_extractors,
\* extract_facts, filter_facts, generalize_knowledge, generate_questions, in
\* that order and once each, and returns at the pause; and over any sequence
\* of calls the stages run in this cyclic order.
C1_StageOrder == [](C1_Call) /\ [][C1_Returns /\ C1_Cyclic]_vars

\* Such a force_process() call is about to return, and has accepted a fact.
C1_Witness ==
    /\ pc = "running" /\ call = "force_process" /\ started /\ clean
    /\ steps[pos + 1] = "None"
    /\ ran = CycleStages
    /\ \E e \in DOMAIN knowledge : e.segment # None

\* C2: add_answer(evidence, answer) records the label in the answers map and
\* changes nothing else: known_facts(), the pending questions and the position
\* in the stage cycle are as before.
C2_AddAnswerFrame ==
    [][/\ (\E evidence \in all_candidates(relations), answer \in BOOLEAN :
              add_answer(evidence, answer)) =>
              (knowledge' = knowledge /\ questions' = questions /\ pos' = pos
               /\ pc' = pc)
       /\ answers' # answers =>
              /\ knowledge' = knowledge /\ questions' = questions /\ pos' = pos
              /\ \E evidence \in DOMAIN answers', answer \in BOOLEAN :
                    /\ answers'[evidence] = int(answer)
                    /\ \A e \in DOMAIN answers :
                          e \in DOMAIN answers' /\ (e # evidence => answers'[e] = answers[e])
                    /\ DOMAIN answers' = (DOMAIN answers) \cup {evidence}
      ]_vars

\* A pending question has been answered, and Knowledge holds an accepted
\* evidence.
C2_Witness ==
    /\ pc = "idle"
    /\ \E e \in DOMAIN answers : e \in DOMAIN questions
    /\ \E e \in DOMAIN knowledge : e.segment # None

\* C3: the evidence keys of known_facts() never shrink: an evidence that is in
\* Knowledge is in Knowledge in every later state.
C3_KnowledgeGrows ==
    [][\A e \in DOMAIN knowledge : e \in DOMAIN knowledge']_vars

\* filter_facts has run on a set that scores an accepted evidence at or below
\* the threshold.
C3_Witness ==
    /\ Returned("filter_facts")
    /\ \E e \in DOMAIN knowledge :
          e.segment # None /\ e \in DOMAIN data.map /\ data.map[e] <= fact_threshold

\* C4: filter_facts(facts) puts into Knowledge, with its score, every item of
\* facts whose score is strictly greater than fact_threshold, changes nothing
\* else in Knowledge, and returns facts whole.
C4_FilterFacts ==
    [][(Calls("filter_facts") /\ data.type = "Knowledge") =>
          LET facts == data.map
              accepted(e) == e \in DOMAIN facts /\ facts[e] > fact_threshold
          IN /\ pc' = "running" /\ data' = data
             /\ \A e \in DOMAIN facts : accepted(e) => e \in DOMAIN knowledge'
             /\ \A e \in DOMAIN knowledge : e \in DOMAIN knowledge'
             /\ \A e \in DOMAIN knowledge' :
                   IF accepted(e) THEN knowledge'[e] = facts[e]
                   ELSE e \in DOMAIN knowledge /\ knowledge'[e] = knowledge[e]
      ]_vars

\* filter_facts has returned a set with an item above the threshold, an item
\* at the threshold and an item below, the last two not in Knowledge.
C4_Witness ==
    /\ Returned("filter_facts")
    /\ \E e \in DOMAIN data.map : data.map[e] > fact_threshold /\ e \in DOMAIN knowledge
    /\ \E e \in DOMAIN data.map : data.map[e] = fact_threshold /\ e \notin DOMAIN knowledge
    /\ \E e \in DOMAIN data.map : data.map[e] < fact_threshold /\ e \notin DOMAIN knowledge

\* C5: filter_evidence returns every human answer with the human label, and
\* every pending question without a human answer whose certainty is strictly
\* greater than evidence_threshold, labelled score > 0.5; nothing else.
C5_FilterEvidence ==
    Returned("filter_evidence") =>
        /\ data.type = "Knowledge"
        /\ \A e \in DOMAIN answers :
              e \in DOMAIN data.map /\ data.map[e] = IntLabel(answers[e])
        /\ \A e \in (DOMAIN questions) \ (DOMAIN answers) :
              IF certainty(questions[e]) > evidence_threshold
              THEN e \in DOMAIN data.map /\ data.map[e] = BoolLabel(questions[e] > Half)
              ELSE e \notin DOMAIN data.map
        /\ (DOMAIN data.map) \subseteq (DOMAIN answers) \cup (DOMAIN questions)

\* filter_evidence has returned, and a certain question has a human answer
\* that contradicts its score.
C5_Witness ==
    /\ Returned("filter_evidence")
    /\ \E e \in (DOMAIN questions) \cap (DOMAIN answers) :
          /\ certainty(questions[e]) > evidence_threshold
          /\ answers[e] # int(questions[e] > Half)

\* filter_evidence has returned an automatic label False.
C5_WitnessAutoFalse ==
    /\ Returned("filter_evidence")
    /\ \E e \in DOMAIN data.map : data.map[e] = BoolLabel(FALSE)

\* filter_evidence has returned an automatic label True.
C5_WitnessAutoTrue ==
    /\ Returned("filter_evidence")
    /\ \E e \in DOMAIN data.map : data.map[e] = BoolLabel(TRUE)

\* filter_evidence has returned, and has left out a question that has no
\* answer and whose certainty is the threshold.
C5_WitnessLeftOut ==
    /\ Returned("filter_evidence")
    /\ \E e \in (DOMAIN questions) \ (DOMAIN answers) :
          certainty(questions[e]) = evidence_threshold

\* The relations of the labelled evidence ev that have a label true and a
\* label false, whatever the Python type of the labels.
BothLabels(ev) ==
    {r \in {e.fact.relation : e \in DOMAIN ev} :
        /\ \E e \in DOMAIN ev : e.fact.relation = r /\ ev[e].v = 1
        /\ \E e \in DOMAIN ev : e.fact.relation = r /\ ev[e].v = 0}

\* C6: learn_fact_extractors returns a classifier for a relation if and only
\* if the filtered evidence of the relation has an item labelled true and an
\* item labelled false, the labels being human answers (0/1) or automatic
\* ones (booleans); when no relation has both labels it returns and does not
\* raise.
C6_LearnFactExtractors ==
    [][Calls("learn_fact_extractors") =>
          /\ data.type = "Knowledge"
          /\ pc' = "running" =>
                data'.type = "dict" /\ DOMAIN data'.map = BothLabels(data.map)
          /\ BothLabels(data.map) = {} => pc' = "running"
      ]_vars

\* learn_fact_extractors has returned a classifier for a relation whose human
\* answers are all 1: the label false is an automatic one.
C6_Witness ==
    /\ Returned("learn_fact_extractors")
    /\ \E r \in DOMAIN data.map :
          /\ \E e \in DOMAIN answers : e.fact.relation = r
          /\ \A e \in DOMAIN answers : e.fact.relation = r => answers[e] = 1

\* learn_fact_extractors has returned no classifier for a relation that has
\* human answers, all of them 0.
C6_WitnessSkipped ==
    /\ Returned("learn_fact_extractors")
    /\ \E e \in DOMAIN answers : e.fact.relation \notin DOMAIN data.map

\* The candidates of the relation table rels: for every relation, every
\* segment and every ordered pair of distinct occurrence indices of the
\* relation's kinds, the evidence of the two entities that occur there.
ExpectedCandidates(rels) ==
    UNION {UNION {
        {Evidence(Fact(SegEntities[s][p[1]], r, SegEntities[s][p[2]]), s, p[1], p[2]) :
            p \in {q \in (DOMAIN SegEntities[s]) \X (DOMAIN SegEntities[s]) :
                     /\ q[1] # q[2]
                     /\ SegEntities[s][q[1]].kind = rels[r][1]
                     /\ SegEntities[s][q[2]].kind = rels[r][2]}} :
        s \in Segments} : r \in DOMAIN rels}

\* C7: extract_facts returns one candidate evidence for every relation of the
\* relation table, every segment holding both kinds and every ordered pair of
\* distinct occurrence indices of the kinds; the score of a candidate is the
\* positive-class probability of the relation's classifier, and 0.5 when the
\* relation has none.
C7_ExtractFacts ==
    [][(Calls("extract_facts") /\ pc' = "running") =>
          /\ data'.type = "Knowledge"
          /\ DOMAIN data'.map = ExpectedCandidates(relations)
          /\ \A e \in DOMAIN data'.map :
                data'.map[e] =
                    IF data.type = "dict" /\ e.fact.relation \in DOMAIN data.map
                    THEN data.map[e.fact.relation].ps[e]
                    ELSE Half
      ]_vars

\* extract_facts has returned candidates of a relation with a classifier and
\* candidates of a relation without one, of entities of one kind.
C7_Witness ==
    /\ Returned("extract_facts")
    /\ \E e1, e2 \in DOMAIN data.map :
          /\ e1.fact.relation # e2.fact.relation
          /\ data.map[e1] > fact_threshold
          /\ data.map[e2] = Half
          /\ e2.fact.e1.kind = e2.fact.e2.kind

\* At the pause, the fact of every pending question is the fact of an entry
\* of Knowledge.
C8_Pause ==
    (pc = "idle" /\ steps[pos + 1] = "filter_evidence") =>
        \A q \in DOMAIN questions : \E k \in DOMAIN knowledge : k.fact = q.fact

\* C8: generalize_knowledge(evidence) returns the items of evidence whose fact
\* is the fact of an entry of Knowledge, with their scores, and no other; so
\* at every pause the fact of every pending question is in Knowledge.
C8_GeneralizeKnowledge ==
    /\ [](C8_Pause)
    /\ [][(Calls("generalize_knowledge") /\ data.type = "Knowledge") =>
             /\ pc' = "running" /\ data'.type = "Knowledge"
             /\ DOMAIN data'.map =
                   {e \in DOMAIN data.map : \E k \in DOMAIN knowledge : k.fact = e.fact}
             /\ \A e \in DOMAIN data'.map : data'.map[e] = data.map[e]
         ]_vars

\* generalize_knowledge has returned some of the candidates extract_facts
\* scored, and has dropped others.
C8_Witness ==
    /\ Returned("generalize_knowledge")
    /\ call = "force_process"
    /\ data.map # EmptyK
    /\ \E e \in all_candidates(relations) : e \notin DOMAIN data.map

\* generate_questions stores the items of its input that have no answer.
C9_GenerateQuestions ==
    (Calls("generate_questions") /\ data.type = "Knowledge") =>
        /\ pc' = "running"
        /\ DOMAIN questions' = (DOMAIN data.map) \ (DOMAIN answers)
        /\ \A e \in DOMAIN questions' : questions'[e] = data.map[e]

\* When start() or force_process() returns, no pending question has an answer.
C9_PauseEntry ==
    ReturnsAtPause => \A q \in DOMAIN questions' : q \notin DOMAIN answers'

\* C9: each time the pipeline enters the pause (start() or force_process()
\* returns), the pending questions are the generalized evidence less the
\* evidence that has a human answer: no pending question has an answer recorded
\* before the pause was entered.
C9_QuestionsAtPause == [][C9_GenerateQuestions /\ C9_PauseEntry]_vars

\* The questions start() asks on a new pipeline: for every seed fact, every
\* segment and every ordered pair of distinct occurrence indices of the fact's
\* two entities, one evidence with score 0.5.
ExpectedStartQuestions ==
    LET keys == UNION {UNION {
            {Evidence(f, s, p[1], p[2]) :
                p \in {q \in (DOMAIN SegEntities[s]) \X (DOMAIN SegEntities[s]) :
                         /\ q[1] # q[2]
                         /\ SegEntities[s][q[1]] = f.e1
                         /\ SegEntities[s][q[2]] = f.e2}} :
            s \in Segments} : f \in seed_facts}
    IN [e \in keys |-> Half]

\* C10: on a new pipeline with no answers, start() runs generalize_knowledge
\* and generate_questions only, leaves known_facts() as constructed, and when
\* it returns the pending questions are one evidence with score 0.5 for every
\* seed fact, every segment holding both entities and every ordered pair of
\* distinct occurrence indices of the two entities.
C10_Start ==
    (pc = "running" /\ call = "start" /\ fresh) =>
        /\ knowledge = [e \in {Evidence(f, None, None, None) : f \in seed_facts} |-> 100]
        /\ IsPrefix(ran, <<"generalize_knowledge", "generate_questions">>)
        /\ steps[pos + 1] = "None" =>
              /\ ran = <<"generalize_knowledge", "generate_questions">>
              /\ questions = ExpectedStartQuestions

\* The first start() is about to return, with questions of two facts, one of
\* them about a pair that the text gives in the reverse order.
C10_Witness ==
    /\ pc = "running" /\ call = "start" /\ fresh /\ steps[pos + 1] = "None"
    /\ \E q1, q2 \in DOMAIN questions : q1.fact # q2.fact /\ q1.o1 > q1.o2

\* Two seed facts have one relation label and different kind pairs.
Ambiguous(seeds) ==
    \E f, g \in seeds :
        /\ f.relation = g.relation
        /\ <<f.e1.kind, f.e2.kind>> # <<g.e1.kind, g.e2.kind>>

\* C11: constructing a pipeline raises, and no pipeline is created, if and only
\* if two seed facts have the same relation label and different kind pairs,
\* in whatever order the seeds are visited; when it succeeds, the relation
\* table maps the relation label of every seed fact to its kind pair.
C11_Construction ==
    /\ (pc = "no_pipeline") <=> Ambiguous(seed_facts)
    /\ pc # "no_pipeline" =>
          /\ DOMAIN relations = {f.relation : f \in seed_facts}
          /\ \A f \in seed_facts :
                relations[f.relation] = <<f.e1.kind, f.e2.kind>>

\* The construction has failed on three seeds, two of which agree.
C11_Witness ==
    /\ pc = "no_pipeline"
    /\ \E f, g \in seed_facts :
          /\ f # g /\ f.relation = g.relation
          /\ <<f.e1.kind, f.e2.kind>> = <<g.e1.kind, g.e2.kind>>

\* A pipeline of two seed facts has been constructed.
C11_WitnessBuilt ==
    /\ pc = "idle" /\ ~started
    /\ Cardinality(DOMAIN relations) = 2

\* The certainties of a list of items do not increase.
NonIncreasing(list) ==
    \A i, j \in DOMAIN list :
        i < j => certainty(list[i][2]) >= certainty(list[j][2])

\* The list holds every item of the Knowledge k once.
ListsAll(list, k) ==
    /\ Len(list) = Cardinality(DOMAIN k)
    /\ \A e \in DOMAIN k : \E i \in DOMAIN list : list[i] = <<e, k[e]>>

\* questions_available() returns the pending questions, most certain first.
C12_Ordered ==
    LET q == questions_available(questions)
    IN ~q.raised /\ ListsAll(q.list, questions) /\ NonIncreasing(q.list)

EvidenceInvariant(e) ==
    /\ (e.segment = None) <=> (e.o1 = None)
    /\ (e.segment = None) <=> (e.o2 = None)
    /\ e.o1 # None =>
          /\ e.o1 \in DOMAIN SegEntities[e.segment]
          /\ SegEntities[e.segment][e.o1].kind = e.fact.e1.kind
          /\ SegEntities[e.segment][e.o1].key = e.fact.e1.key
    /\ e.o2 # None =>
          /\ e.o2 \in DOMAIN SegEntities[e.segment]
          /\ SegEntities[e.segment][e.o2].kind = e.fact.e2.kind
          /\ SegEntities[e.segment][e.o2].key = e.fact.e2.key

\* C13: in every state of the pipeline, every Evidence that is a key of
\* Knowledge or of the pending questions has segment, o1 and o2 all null or
\* all set, and when they are set the occurrences at o1 and at o2 of the
\* segment have the kind and the key of fact.e1 and of fact.e2.
C13_EvidenceInvariants ==
    \A e \in (DOMAIN knowledge) \cup (DOMAIN questions) : EvidenceInvariant(e)

\* Knowledge holds a seed evidence and an evidence of a segment, and a
\* question is pending about two entities of one kind.
C13_Witness ==
    /\ \E e \in DOMAIN knowledge : e.segment = None
    /\ \E e \in DOMAIN knowledge : e.segment # None
    /\ \E q \in DOMAIN questions : q.fact.e1.kind = q.fact.e2.kind

\* C14: certainty(null) = certainty(0.5) = 0.5 and certainty(0) =
\* certainty(1) = 1; for every score s in [0, 1], certainty(s) =
\* certainty(1 - s), certainty(s) lies in [0.5, 1], and certainty does not
\* decrease with the distance of s from 0.5.
C14_Certainty ==
    fn = "certainty" =>
        /\ args \in {None, Half} => result = Half
        /\ args \in {0, 100} => result = 100
        /\ args # None =>
              /\ result = certainty(100 - args)
              /\ result \in Half..100
              /\ \A t \in AllScores :
                    abs(t - Half) <= abs(args - Half) => certainty(t) <= result

\* certainty has been applied to a score below 0.5.
C14_Witness == fn = "certainty" /\ args # None /\ args < Half /\ result > Half

\* The lists of the items of `its` in every order.
Reorderings(its) ==
    {[i \in DOMAIN its |-> its[f[i]]] :
        f \in {g \in [DOMAIN its -> DOMAIN its] :
                 \A i, j \in DOMAIN its : i # j => g[i] # g[j]}}

\* C15: by_certainty() returns every (evidence, score) pair of the Knowledge
\* once, in an order of non-increasing certainty(score), and the order
\* depends on the contents of the mapping only, not on the order in which the
\* entries were inserted.
C15_ByCertainty ==
    fn = "by_certainty" =>
        /\ ~result.raised
        /\ ListsAll(result.list, Knowledge(args))
        /\ NonIncreasing(result.list)
        /\ \A its \in Reorderings(args) : by_certainty(its) = result

\* What holds of by_certainty() whenever it returns.
C15_WhenItReturns ==
    (fn = "by_certainty" /\ ~result.raised) =>
        /\ ListsAll(result.list, Knowledge(args))
        /\ NonIncreasing(result.list)
        /\ \A its \in Reorderings(args) : by_certainty(its) = result

\* The items with every unknown score replaced by 0.5.
KnownScores(its) ==
    [i \in DOMAIN its |-> <<its[i][1], IF its[i][2] = None THEN Half ELSE its[i][2]>>]

\* C16: by_certainty() ranks an entry of unknown score as an entry of score
\* 0.5: replacing an unknown score by 0.5 changes the position of no entry in
\* the order returned.
C16_UnknownAsHalf ==
    (fn = "by_certainty" /\ ~result.raised) =>
        LET r == by_certainty(KnownScores(args))
        IN /\ ~r.raised
           /\ \A i \in DOMAIN result.list : r.list[i][1] = result.list[i][1]

\* C17: per_relation() partitions the Knowledge: every key is, with its score,
\* in the sub-mapping of its fact.relation and in no other, no sub-mapping is
\* empty, and the keys of the sub-mappings together are the keys of the
\* Knowledge.
C17_PerRelation ==
    fn = "per_relation" =>
        LET k == Knowledge(args)
        IN /\ \A e \in DOMAIN k :
                 /\ e.fact.relation \in DOMAIN result
                 /\ \A r \in DOMAIN result :
                       (e \in DOMAIN result[r]) <=> (r = e.fact.relation)
                 /\ result[e.fact.relation][e] = k[e]
           /\ \A r \in DOMAIN result : DOMAIN result[r] # {}
           /\ UNION {DOMAIN result[r] : r \in DOMAIN result} = DOMAIN k

\* per_relation() has split a Knowledge of two relations, one of them with
\* two entries.
C17_Witness ==
    /\ fn = "per_relation"
    /\ Cardinality(DOMAIN result) = 2
    /\ \E r \in DOMAIN result : Cardinality(DOMAIN result[r]) = 2

\* C18: for every sequence a sorted by key and every xl <= xr,
\* _interval_offsets(a, xl, xr) returns, without raising, a pair (l, r) with
\* l <= r such that every element before l has a key < xl, every element of
\* [l, r) a key in [xl, xr) and every element from r on a key >= xr; for
\* xl = xr the slice is empty, at the insertion point of xl, also when the
\* sequence is empty or no element matches; [1, 3, 3, 5, 8] with [3, 5) gives
\* (1, 3).
C18_IntervalOffsets ==
    fn = "_interval_offsets" =>
        LET a == args.a
            l == result.l
            r == result.r
        IN /\ ~result.raised
           /\ 0 <= l /\ l <= r /\ r <= Len(a)
           /\ \A i \in 1..Len(a) :
                 /\ i <= l => a[i] < args.xl
                 /\ (l < i /\ i <= r) => (args.xl <= a[i] /\ a[i] < args.xr)
                 /\ r < i => args.xr <= a[i]
           /\ args.xl = args.xr => l = r
           /\ args = ExampleOffsets => (l = 1 /\ r = 3)

\* _interval_offsets has returned a slice of two equal keys that has
\* elements before it and after it, one of them of key xr.
C18_Witness ==
    /\ fn = "_interval_offsets"
    /\ 0 < result.l /\ result.r = result.l + 2 /\ result.r < Len(args.a)
    /\ args.a[result.r + 1] = args.xr
    /\ args # ExampleOffsets

\* _interval_offsets has returned the empty slice inside a sequence, for
\* xl = xr.
C18_WitnessEmpty ==
    /\ fn = "_interval_offsets"
    /\ args.xl = args.xr
    /\ 0 < result.l /\ result.l < Len(args.a)

\* The number of elements of the list equal to x.
Count(list, x) == Cardinality({i \in DOMAIN list : list[i] = x})

\* C19: for a document whose sentence list is valid and whose occurrences are
\* sorted by offset, build_syntactic_segments builds one segment spanning
\* [start, end) for every sentence [start, end) that holds at least two
\* entity occurrences (their offset lies in the sentence), and no segment for
\* a sentence that holds fewer, and no other segment.
C19_SyntacticSegments ==
    fn = "build_syntactic_segments" =>
        LET doc == args.doc
            ss == doc.sentences
            sentences == {<<ss[i], ss[i + 1]>> : i \in 1..(Len(ss) - 1)}
            holds(sn) == Cardinality({k \in DOMAIN doc.entities :
                             sn[1] <= doc.entities[k].offset
                             /\ doc.entities[k].offset < sn[2]})
        IN /\ \A sn \in sentences :
                 Count(result, sn) = IF holds(sn) >= 2 THEN 1 ELSE 0
           /\ \A k \in DOMAIN result : result[k] \in sentences

\* build_syntactic_segments has built a segment for the second sentence of
\* three, and none for the first, which holds one occurrence, nor for the
\* third, which holds none.
C19_Witness ==
    /\ fn = "build_syntactic_segments"
    /\ Len(args.doc.sentences) = 4
    /\ result = << <<args.doc.sentences[2], args.doc.sentences[3]>> >>
    /\ \E k \in DOMAIN args.doc.entities :
          args.doc.entities[k].offset < args.doc.sentences[2]
    /\ \A k \in DOMAIN args.doc.entities :
          args.doc.entities[k].offset < args.doc.sentences[3]

\* No two occurrences of the list share a token.
NonOverlapping(entities) ==
    \A i, j \in DOMAIN entities :
        i < j => entities[i].offset_end <= entities[j].offset

\* C20: for every document whose occurrences are sorted by offset and do not
\* overlap, and every d, no segment built by build_contextual_segments(d)
\* splits an entity occurrence: the tokens [offset, offset_end) of every
\* occurrence are all inside or all outside every window [start, end) built.
C20_NoSplit ==
    (fn = "build_contextual_segments" /\ NonOverlapping(args.doc.entities)) =>
        \A k \in DOMAIN result.segments :
            \A o \in DOMAIN args.doc.entities :
                LET start_ == result.segments[k][1]
                    end == result.segments[k][2]
                    occ == args.doc.entities[o]
                IN \/ start_ <= occ.offset /\ occ.offset_end <= end
                   \/ occ.offset_end <= start_
                   \/ end <= occ.offset

\* build_contextual_segments has built its first window around three close
\* occurrences; the distance d alone would have cut the fourth, of several
\* tokens, and the correction moved the end of the window to its end.
C20_Witness ==
    /\ fn = "build_contextual_segments"
    /\ NonOverlapping(args.doc.entities)
    /\ Len(args.doc.entities) >= 4
    /\ result.segments # <<>>
    /\ LET es == args.doc.entities
           seg == result.segments[1]
       IN /\ es[2].offset - es[1].offset_end < args.d
          /\ es[3].offset - es[2].offset_end < args.d
          /\ es[4].offset < es[3].offset_end + args.d
          /\ es[3].offset_end + args.d < es[4].offset_end
          /\ seg[2] = es[4].offset_end

\* A turn of the loop of build_contextual_segments that computed a candidate
\* window, and the windows before and after it.
ComputesWindow ==
    /\ fn = "build_contextual_segments" /\ fn' = fn
    /\ ~result.returned /\ ~result'.returned
    /\ result'.i > result.i

PrecedingWindow == <<result.lstart, result.lend>>
CandidateWindow == <<result'.lstart, result'.lend>>

Overlap(w1, w2) == w1[1] < w2[2] /\ w2[1] < w1[2]
Size(w) == w[2] - w[1]
Materialized(w) == \E k \in DOMAIN result'.segments : result'.segments[k] = w

\* C21: whenever two consecutively computed candidate windows overlap, only
\* the larger of the two is materialized as a segment: the smaller one is
\* not among the segments built.
C21_CollapseToLarger ==
    [][(ComputesWindow /\ result.lend # -1
        /\ Overlap(PrecedingWindow, CandidateWindow)) =>
            /\ Size(PrecedingWindow) < Size(CandidateWindow)
                   => ~Materialized(PrecedingWindow)
            /\ Size(CandidateWindow) < Size(PrecedingWindow)
                   => ~Materialized(CandidateWindow)]_vars

\* The candidate repeats the preceding window or lies inside it.
RepeatsOrContained ==
    /\ PrecedingWindow[1] <= CandidateWindow[1]
    /\ CandidateWindow[2] <= PrecedingWindow[2]

\* C22: a candidate window that repeats, or is contained in, the window
\* computed just before it is not materialized, and every other candidate
\* window is.
C22_Deduplication ==
    [][ComputesWindow =>
           IF RepeatsOrContained
           THEN result'.segments = result.segments
           ELSE result'.segments = Append(result.segments, CandidateWindow)]_vars

\* C22 for the documents whose occurrences do not overlap.
C22_NonOverlapping ==
    [][(ComputesWindow /\ NonOverlapping(args.doc.entities)) =>
           IF RepeatsOrContained
           THEN result'.segments = result.segments
           ELSE result'.segments = Append(result.segments, CandidateWindow)]_vars

\* Occurrence k has no neighbour closer than d.
Isolated(entities, k, d) ==
    /\ k > 1 => entities[k].offset - entities[k - 1].offset_end >= d
    /\ k < Len(entities) => entities[k + 1].offset - entities[k].offset_end >= d

\* C23: for a document whose occurrences are sorted and do not overlap, no
\* window built by build_contextual_segments(d) contains an occurrence whose
\* gap to each neighbour is at least d, and no window at all is built when
\* no two consecutive occurrences are closer than d.
C23_Isolated ==
    (fn = "build_contextual_segments" /\ NonOverlapping(args.doc.entities)) =>
        LET es == args.doc.entities
        IN /\ \A k \in DOMAIN es :
                 Isolated(es, k, args.d) =>
                     \A n \in DOMAIN result.segments :
                         ~(/\ result.segments[n][1] <= es[k].offset
                           /\ es[k].offset_end <= result.segments[n][2])
           /\ (\A k \in DOMAIN es : Isolated(es, k, args.d))
                 => result.segments = <<>>

\* build_contextual_segments(d) has returned with a window built around two
\* close occurrences, in a document that has an isolated occurrence at
\* distance d of them.
C23_Witness ==
    /\ fn = "build_contextual_segments"
    /\ NonOverlapping(args.doc.entities)
    /\ result.returned
    /\ result.segments # <<>>
    /\ args.d > 0
    /\ \E k \in DOMAIN args.doc.entities :
          /\ k > 1
          /\ Isolated(args.doc.entities, k, args.d)
          /\ args.doc.entities[k].offset
                 - args.doc.entities[k - 1].offset_end = args.d

\* build_contextual_segments(d) has returned without any window for a
\* document of several occurrences, none close to another.
C23_WitnessNone ==
    /\ fn = "build_contextual_segments"
    /\ NonOverlapping(args.doc.entities)
    /\ result.returned
    /\ Len(args.doc.entities) >= 3
    /\ args.d > 0
    /\ \A k \in DOMAIN args.doc.entities :
          Isolated(args.doc.entities, k, args.d)
    /\ result.segments = <<>>

\* The sentencer result is not a valid sentence list of the tokens.
InvalidSentences(res, tokens) ==
    \/ \E i, j \in DOMAIN res : i < j /\ res[i] >= res[j]
    \/ Len(res) = 0
    \/ res[1] # 0
    \/ res[Len(res)] # Len(tokens)

\* C24: set_preprocess_result raises for a sentencer result that is not
\* sorted, has duplicates, does not start at 0 or does not end at the token
\* count, and for a tagging result whose length is not the token count; and
\* whenever it raises, every field and every done flag of the document is as
\* before the call.
C24_RejectBeforeMutate ==
    [][fn' = "set_preprocess_result" =>
          /\ (args'.step = "sentencer"
                /\ InvalidSentences(args'.result, document.tokens))
                 => result' # "none"
          /\ (args'.step = "tagging"
                /\ Len(args'.result) # Len(document.tokens))
                 => result' # "none"
          /\ result' # "none" => document' = document]_vars

\* A sentencer result with a duplicate has been rejected on a document whose
\* tokens, sentences and tags had been set.
C24_Witness ==
    /\ fn = "set_preprocess_result"
    /\ args.step = "sentencer"
    /\ \E i, j \in DOMAIN args.result : i < j /\ args.result[i] = args.result[j]
    /\ result = "ValueError"
    /\ {"tokenization", "sentencer", "tagging"} \subseteq document.preprocess_metadata
    /\ Len(document.tokens) = 2

\* C25: after a segment builder is run again on a document, the store holds
\* for the document the segments of the latest build only, none left over
\* or duplicated from an earlier build.
C25_RebuildDiscards ==
    [][(result.runs >= 1 /\ result'.runs > result.runs)
          => objects' = result'.built]_vars

\* C26: whenever the sentencer stage is flagged done the stored sentence list
\* is strictly increasing, starts at 0 and ends at the current token count,
\* and whenever the tagging stage is flagged done the stored tags are as many
\* as the current tokens.
C26_StoredResults ==
    /\ "sentencer" \in document.preprocess_metadata
          => ~InvalidSentences(document.sentences, document.tokens)
    /\ "tagging" \in document.preprocess_metadata
          => Len(document.postags) = Len(document.tokens)

\* The step taken is a store or classifier failure in a stage of a
\* force_process() call: the stage was given its input and raises.
CollaboratorRaises ==
    /\ pc = "running" /\ call = "force_process"
    /\ steps[pos + 1] \in {"learn_fact_extractors", "extract_facts"}
    /\ data.type # "None"
    /\ pc' = "idle"

\* C27: when a stage raises during force_process(), the pipeline is left so
\* that the next force_process() call resumes at filter_evidence, not at a
\* stage in the middle of the cycle.
C27_ResumeAtFilterEvidence ==
    [][CollaboratorRaises => steps[pos' + 1] = "filter_evidence"]_vars

\* C28: once the pipeline is constructed, every seed fact is in known_facts()
\* as an Evidence without segment and occurrences, with score 1, in every
\* state.
C28_SeedsStay ==
    pc # "no_pipeline" =>
        \A f \in seed_facts :
            /\ Evidence(f, None, None, None) \in DOMAIN knowledge
            /\ knowledge[Evidence(f, None, None, None)] = SeedScore

\* The pipeline is paused after filter_facts has accepted an evidence of a
\* seed fact, found in a segment, and the seeds are two.
C28_Witness ==
    /\ pc = "idle"
    /\ Cardinality(seed_facts) = 2
    /\ \E e \in DOMAIN knowledge : e.segment # None /\ e.fact \in seed_facts

\* C29: in every state of a constructed pipeline the relation table is the
\* one of the seeds, and the fact of every Knowledge entry has the kind pair
\* the table gives for its relation.
C29_RelationTable ==
    pc # "no_pipeline" =>
        /\ DOMAIN relations = {f.relation : f \in seed_facts}
        /\ \A f \in seed_facts : relations[f.relation] = <<f.e1.kind, f.e2.kind>>
        /\ \A e \in DOMAIN knowledge :
              /\ e.fact.relation \in DOMAIN relations
              /\ relations[e.fact.relation] = <<e.fact.e1.kind, e.fact.e2.kind>>

\* Knowledge holds a fact that is not a seed, accepted by filter_facts, in a
\* pipeline of two relations.
C29_Witness ==
    /\ pc = "idle"
    /\ Cardinality(DOMAIN relations) = 2
    /\ \E e \in DOMAIN knowledge : e.fact \notin seed_facts

\* What one turn of the cycle, from filter_evidence to the pause, makes of
\* the knowledge k and the questions q, with the answers a: one outcome for
\* every dict of classifiers that learn_fact_extractors may return.
CycleOutcomes(k, q, a, rels) ==
    LET evidence == filter_evidence(a, q)
    IN {LET facts == extract_facts(rels, DictData(d))
            known == filter_facts(k, facts)
            general == generalize_knowledge(known, facts)
        IN [knowledge |-> known, questions |-> generate_questions(a, general)] :
        d \in ClassifierDicts(trained_relations(evidence), rels)}

\* The call in progress was made at the pause, after a start().
MadeAtPause ==
    /\ pc = "running"
    /\ entry.started
    /\ steps[entry.pos + 1] = "filter_evidence"

\* C30: a start() made while the pipeline is paused after an earlier start()
\* does what force_process() does: both run the six stages from
\* filter_evidence to the next pause, and the knowledge and the questions at
\* that pause are an outcome of the cycle on the knowledge, questions and
\* answers the call found, whatever evidence start() enumerated.
C30_StartAgain ==
    (MadeAtPause /\ call \in {"start", "force_process"}) =>
        /\ IsPrefix(ran, CycleStages)
        /\ steps[pos + 1] = "None" =>
              /\ ran = CycleStages
              /\ [knowledge |-> knowledge, questions |-> questions]
                    \in CycleOutcomes(entry.knowledge, entry.questions,
                                      answers, relations)

\* A second start() is about to return at the pause: it has trained a
\* classifier on the answers given and accepted a fact.
C30_Witness ==
    /\ MadeAtPause
    /\ call = "start"
    /\ steps[pos + 1] = "None"
    /\ answers # EmptyK
    /\ knowledge # entry.knowledge

====
